---- MODULE Spec2Model ----
(***************************************************************************)
(* Model of the commerce-performance-platform scripts.                     *)
(*                                                                         *)
(*   scripts/data_cleaning.py       run_pipeline  (specification Spec)     *)
(*   scripts/load_and_validate.py   main          (specification SpecDB)   *)
(*   scripts/run_transformations.py main          (specification SpecDB)   *)
(*   scripts/export_for_powerbi.py  main          (specification SpecDB)   *)
(*                                                                         *)
(* Conventions of the data model                                           *)
(*   - a nullable cell is <<>> (NaN / None / NaT) or <<v>>;                *)
(*   - text that the code inspects character by character (column headers, *)
(*     returned, region, person) is a sequence of one-character strings,   *)
(*     "nbsp" standing for the single character U+00A0;                    *)
(*   - amounts and fractions are integers counting thousandths (1.5 is     *)
(*     1500); profit_margin counts ten-thousandths (0.25 is 2500);         *)
(*   - a Timestamp is [day, sec, ns] with day counted from 1899-12-30, so  *)
(*     an Excel serial n denotes day n and 1970-01-01 is day 25569;        *)
(*   - idx is the DataFrame index label given by read_excel; after the     *)
(*     merges (which renumber the index) it is kept as the provenance of   *)
(*     the record.                                                         *)
(* Columns of the Orders sheet that no step of run_pipeline reads by name  *)
(* other than to re-type or re-render them (row_id, postal_code,           *)
(* shipping_cost, the categorical descriptors) are not carried.            *)
(***************************************************************************)
EXTENDS Integers, Sequences, FiniteSets, TLC

VARIABLES
    pc,        \* position of run_pipeline
    wb,        \* the source workbook (environment, fixed for the run)
    reads,     \* the read attempts made so far: <<[dtype, parse_dates], ...>>
    orders,    \* orders DataFrame
    returns,   \* returns DataFrame
    people,    \* people DataFrame
    df,        \* df_merged
    report,    \* what the run has logged (counts and flags of the warnings)
    csv,       \* state of ./data/processed/cleaned_orders.csv
    parquet,   \* state of ./data/processed/cleaned_orders.parquet
    exit,      \* exit status of the data_cleaning process, -1 while running
    script,    \* SpecDB: which downstream script is running
    dpc,       \* SpecDB: position in that script's main()
    env,       \* SpecDB: the environment of the script (files, failing calls)
    con,       \* SpecDB: "none", "open" or "closed"
    opens,     \* SpecDB: number of duckdb.connect calls made
    dexit      \* SpecDB: exit status of the script, -1 while running

vars == <<pc, wb, reads, orders, returns, people, df, report, csv, parquet, exit,
          script, dpc, env, con, opens, dexit>>

pipeVars == <<pc, wb, reads, orders, returns, people, df, report, csv, parquet, exit>>

dbVars == <<script, dpc, env, con, opens, dexit>>

(***************************************************************************)
(* Bounds of the model                                                     *)
(***************************************************************************)
MaxOrders == 2

MaxReturns == 2

MaxPeople == 2

\* column identifiers per list and characters per identifier when clean_cols
\* is examined on its own
MaxCols == 1

MaxHeaderLen == 3

(***************************************************************************)
(* Nullable cells                                                          *)
(***************************************************************************)
Null == <<>>

IsNull(x) == x = <<>>

Some(v) == <<v>>

Val(x) == x[1]

(***************************************************************************)
(* Text                                                                    *)
(***************************************************************************)
UpperChars == <<"A", "B", "C", "D", "E", "F", "G", "H", "I", "J", "K", "L", "M", "N", "O", "P", "Q", "R", "S", "T", "U", "V", "W", "X", "Y", "Z">>

LowerChars == <<"a", "b", "c", "d", "e", "f", "g", "h", "i", "j", "k", "l", "m", "n", "o", "p", "q", "r", "s", "t", "u", "v", "w", "x", "y", "z">>

\* str.isspace for the characters of the model; U+00A0 is whitespace to Python
IsSpace(c) == c \in {" ", "nbsp"}

LowerChar(c) ==
    IF \E i \in DOMAIN UpperChars : UpperChars[i] = c
    THEN LowerChars[CHOOSE i \in DOMAIN UpperChars : UpperChars[i] = c]
    ELSE c

UpperChar(c) ==
    IF \E i \in DOMAIN LowerChars : LowerChars[i] = c
    THEN UpperChars[CHOOSE i \in DOMAIN LowerChars : LowerChars[i] = c]
    ELSE c

\* str.lower()
Lower(t) == [i \in 1..Len(t) |-> LowerChar(t[i])]

RECURSIVE LStrip(_)
LStrip(t) == IF t # <<>> /\ IsSpace(Head(t)) THEN LStrip(Tail(t)) ELSE t

RECURSIVE RStrip(_)
RStrip(t) == IF t # <<>> /\ IsSpace(t[Len(t)]) THEN RStrip(SubSeq(t, 1, Len(t) - 1)) ELSE t

\* str.strip()
Strip(t) == RStrip(LStrip(t))

\* str.replace(a, b) for single characters a, b
Replace(t, a, b) == [i \in 1..Len(t) |-> IF t[i] = a THEN b ELSE t[i]]

\* str.capitalize(): first character upper-cased, the rest lower-cased
Capitalize(t) == [i \in 1..Len(t) |-> IF i = 1 THEN UpperChar(t[i]) ELSE LowerChar(t[i])]

NanText == <<"n", "a", "n">>

\* Series.astype(str) on one nullable text cell: NaN is rendered "nan"
AsStr(x) == IF IsNull(x) THEN NanText ELSE Val(x)

Yes == <<"Y", "e", "s">>

No == <<"N", "o">>

Unknown == <<"U", "n", "k", "n", "o", "w", "n">>

EasternCanada == <<"E", "a", "s", "t", "e", "r", "n", " ", "C", "a", "n", "a", "d", "a">>

WesternCanada == <<"W", "e", "s", "t", "e", "r", "n", " ", "C", "a", "n", "a", "d", "a">>

eastern_states == {"Ontario", "Quebec", "Nova Scotia", "New Brunswick",
                   "Prince Edward Island", "Newfoundland and Labrador"}

(***************************************************************************)
(* Column headers                                                          *)
(***************************************************************************)
\* the names by which the code addresses the columns after clean_cols
ColName == [
    order_id |-> <<"o", "r", "d", "e", "r", "_", "i", "d">>,
    quantity |-> <<"q", "u", "a", "n", "t", "i", "t", "y">>,
    discount |-> <<"d", "i", "s", "c", "o", "u", "n", "t">>,
    sales |-> <<"s", "a", "l", "e", "s">>,
    profit |-> <<"p", "r", "o", "f", "i", "t">>,
    country |-> <<"c", "o", "u", "n", "t", "r", "y">>,
    state |-> <<"s", "t", "a", "t", "e">>,
    region |-> <<"r", "e", "g", "i", "o", "n">>,
    order_date |-> <<"o", "r", "d", "e", "r", "_", "d", "a", "t", "e">>,
    ship_date |-> <<"s", "h", "i", "p", "_", "d", "a", "t", "e">>,
    returned |-> <<"r", "e", "t", "u", "r", "n", "e", "d">>,
    person |-> <<"p", "e", "r", "s", "o", "n">>,
    profit_margin |-> <<"p", "r", "o", "f", "i", "t", "_", "m", "a", "r", "g", "i", "n">>]

\* a clean_col whose last replacement turns hyphens into spaces
clean_col_hyphen_to_space(col) == Replace(Replace(Lower(Strip(col)), " ", "_"), "-", " ")

\* one column identifier through the comprehension of clean_cols
clean_col(col) == Replace(Replace(Lower(Strip(col)), " ", "_"), "-", "_")

\* clean_cols(df): df.cols maps each field of the model's rows to the header
\* its column carries (<<>> when the sheet has no such column)
clean_cols(d) == [d EXCEPT !.cols = [f \in DOMAIN d.cols |-> clean_col(d.cols[f])]]

\* 'name' in df.columns
HasCol(d, f) == f \in DOMAIN d.cols /\ d.cols[f] = ColName[f]

(***************************************************************************)
(* Numbers                                                                 *)
(***************************************************************************)
Abs(a) == IF a < 0 THEN -a ELSE a

Sign(a) == IF a < 0 THEN -1 ELSE 1

\* a / b rounded to the nearest integer, ties to even (numpy rounding), b # 0
RoundDiv(a, b) ==
    LET n == Abs(a)
        d == Abs(b)
        q == n \div d
        r == n % d
        up == (2 * r > d) \/ (2 * r = d /\ q % 2 = 1)
    IN  Sign(a) * Sign(b) * (IF up THEN q + 1 ELSE q)

\* Series.round(2) on one nullable cell counted in thousandths
Round2(x) == IF IsNull(x) THEN Null ELSE Some(10 * RoundDiv(Val(x), 10))

(***************************************************************************)
(* Dates                                                                   *)
(***************************************************************************)
\* pd.Timestamp('1899-12-30') on the day axis of the model
ExcelEpochDay == 0

\* 1970-01-01, the origin pd.to_datetime gives to a bare number
UnixEpochDay == 25569

NsPerSec == 1000000000

SecPerDay == 86400

Ts(d, s, n) == [k |-> "ts", day |-> d, sec |-> s, ns |-> n]

Num(n) == [k |-> "num", n |-> n]

Str(s) == [k |-> "str", s |-> s]

\* string-to-date parsing of the strings the model feeds in; anything the
\* parser does not recognise is NaT under errors='coerce'
ParseDateString(s) ==
    CASE s = "2016-01-05" -> Some(Ts(42374, 0, 0))
      [] s = "2016-02-01" -> Some(Ts(42401, 0, 0))
      [] OTHER -> Null

\* pd.to_datetime of a bare number: that many nanoseconds after 1970-01-01
FromUnixNs(n) ==
    Ts(UnixEpochDay + ((n \div NsPerSec) \div SecPerDay), (n \div NsPerSec) % SecPerDay, n % NsPerSec)

IsTs(x) == ~IsNull(x) /\ Val(x).k = "ts"

IsNum(x) == ~IsNull(x) /\ Val(x).k = "num"

IsStr(x) == ~IsNull(x) /\ Val(x).k = "str"

\* pd.api.types.is_datetime64_any_dtype(column): every cell a Timestamp or NaT
IsDatetimeCol(col) == \A i \in DOMAIN col : IsNull(col[i]) \/ IsTs(col[i])

\* a to_datetime that keeps nothing but the strings it can parse
to_datetime_typed_lost(col, intsToNaT) ==
    [i \in DOMAIN col |->
        IF IsStr(col[i]) THEN ParseDateString(Val(col[i]).s) ELSE Null]

\* pd.to_datetime(column, errors='coerce').  A number is read as nanoseconds
\* since 1970-01-01.  In a column that mixes datetimes with numbers the
\* numbers become NaT or Unix-epoch timestamps depending on the pandas
\* release: intsToNaT is that choice.
to_datetime(col, intsToNaT) ==
    LET mixed == (\E i \in DOMAIN col : IsTs(col[i])) /\ (\E i \in DOMAIN col : IsNum(col[i]))
    IN  [i \in DOMAIN col |->
            IF IsNull(col[i]) THEN Null
            ELSE IF IsTs(col[i]) THEN col[i]
            ELSE IF IsStr(col[i]) THEN ParseDateString(Val(col[i]).s)
            ELSE IF mixed /\ intsToNaT THEN Null
            ELSE Some(FromUnixNs(Val(col[i]).n))]

excel_to_datetime(serial) ==
    IF IsNull(serial) THEN Null
    ELSE IF IsNum(serial) THEN Some(Ts(ExcelEpochDay + Val(serial).n, 0, 0))
    ELSE IF IsTs(serial) THEN serial
    ELSE ParseDateString(Val(serial).s)

\* the lambda of the row-wise fallback
apply_fallback(x) == IF ~IsNull(x) /\ ~IsTs(x) THEN excel_to_datetime(x) ELSE x

\* the body of the loop over ['order_date', 'ship_date'] for one column
coerce_date_col(col, intsToNaT) ==
    IF IsDatetimeCol(col) THEN col
    ELSE LET parsed == to_datetime(col, intsToNaT)
         IN  [i \in DOMAIN parsed |-> apply_fallback(parsed[i])]

\* read_excel(parse_dates=[...]) on one date column: the strings are parsed
\* when every one of them parses, otherwise the column is returned as read
parse_dates_col(col) ==
    IF \A i \in DOMAIN col : IsStr(col[i]) => ~IsNull(ParseDateString(Val(col[i]).s))
    THEN [i \in DOMAIN col |-> IF IsStr(col[i]) THEN ParseDateString(Val(col[i]).s) ELSE col[i]]
    ELSE col

(***************************************************************************)
(* Loading                                                                 *)
(***************************************************************************)
EmptyTable == [cols |-> <<>>, rows |-> <<>>]

NoReport == [dup_dropped |-> 0, people_dups |-> FALSE, neg_qty |-> FALSE,
             invalid_discount |-> FALSE, missing_orders |-> 0,
             unmatched |-> 0, out_of_range |-> 0]

\* the keyword arguments of the first read of the Orders sheet
first_read_args == [dtype |-> TRUE, parse_dates |-> TRUE]

\* a fallback that gives up the type hints as well
fallback_read_args_mut == [dtype |-> FALSE, parse_dates |-> FALSE]

\* the keyword arguments of the fallback read of the Orders sheet
fallback_read_args == [dtype |-> TRUE, parse_dates |-> FALSE]

\* what the three pd.read_excel calls of one attempt end with.  wb.dtype_err:
\* some hinted column holds a value its dtype cannot take; wb.parse_err:
\* date parsing of the Orders sheet raises ValueError.
read_outcome(w, args) ==
    IF ~w.exists THEN "FileNotFoundError"
    ELSE IF (args.dtype /\ w.dtype_err) \/ (args.parse_dates /\ w.parse_err) THEN "ValueError"
    ELSE "ok"

\* the Orders DataFrame a successful read gives: RangeIndex, dates parsed on request
read_orders(w, args) ==
    LET rs == w.orders.rows
        od == [i \in DOMAIN rs |-> rs[i].order_date]
        sd == [i \in DOMAIN rs |-> rs[i].ship_date]
        od2 == IF args.parse_dates THEN parse_dates_col(od) ELSE od
        sd2 == IF args.parse_dates THEN parse_dates_col(sd) ELSE sd
    IN  [cols |-> w.orders.cols,
         rows |-> [i \in DOMAIN rs |->
                     [rs[i] EXCEPT !.order_date = od2[i], !.ship_date = sd2[i]] @@ [idx |-> i - 1]]]

Fail == pc' = "failed" /\ exit' = 1

\* lines 52-59: the first attempt
LoadOk ==
    /\ pc = "load"
    /\ read_outcome(wb, first_read_args) = "ok"
    /\ reads' = Append(reads, first_read_args)
    /\ orders' = read_orders(wb, first_read_args)
    /\ returns' = wb.returns
    /\ people' = wb.people
    /\ pc' = "clean_cols"
    /\ UNCHANGED <<dbVars, wb, df, report, csv, parquet, exit>>

LoadFileNotFound ==
    /\ pc = "load"
    /\ read_outcome(wb, first_read_args) = "FileNotFoundError"
    /\ reads' = Append(reads, first_read_args)
    /\ Fail
    /\ UNCHANGED <<dbVars, wb, orders, returns, people, df, report, csv, parquet>>

LoadValueError ==
    /\ pc = "load"
    /\ read_outcome(wb, first_read_args) = "ValueError"
    /\ reads' = Append(reads, first_read_args)
    /\ pc' = "fallback"
    /\ UNCHANGED <<dbVars, wb, orders, returns, people, df, report, csv, parquet, exit>>

\* lines 60-69: the fallback attempt
FallbackOk ==
    /\ pc = "fallback"
    /\ read_outcome(wb, fallback_read_args) = "ok"
    /\ reads' = Append(reads, fallback_read_args)
    /\ orders' = read_orders(wb, fallback_read_args)
    /\ returns' = wb.returns
    /\ people' = wb.people
    /\ pc' = "clean_cols"
    /\ UNCHANGED <<dbVars, wb, df, report, csv, parquet, exit>>

FallbackFail ==
    /\ pc = "fallback"
    /\ read_outcome(wb, fallback_read_args) # "ok"
    /\ reads' = Append(reads, fallback_read_args)
    /\ Fail
    /\ UNCHANGED <<dbVars, wb, orders, returns, people, df, report, csv, parquet>>

\* lines 79-81
Normalize ==
    /\ pc = "clean_cols"
    /\ orders' = clean_cols(orders)
    /\ returns' = clean_cols(returns)
    /\ people' = clean_cols(people)
    /\ pc' = "drop_duplicates"
    /\ UNCHANGED <<dbVars, wb, reads, df, report, csv, parquet, exit>>

(***************************************************************************)
(* Validation                                                              *)
(***************************************************************************)
\* a row without its index label: drop_duplicates compares the columns only
Columns(r) == [r EXCEPT !.idx = 0]

\* the elements of s whose key has not occurred before (keep='first')
RECURSIVE KeepFirst(_, _, _)
KeepFirst(keys, s, i) ==
    IF i > Len(s) THEN <<>>
    ELSE (IF \E j \in 1..(i - 1) : keys[j] = keys[i] THEN <<>> ELSE <<s[i]>>)
         \o KeepFirst(keys, s, i + 1)

\* a drop_duplicates that also removes the rows with a negative quantity
drop_duplicates_neg_qty(rows) ==
    SelectSeq(KeepFirst([i \in DOMAIN rows |-> Columns(rows[i])], rows, 1),
              LAMBDA r : IsNull(r.quantity) \/ Val(r.quantity) >= 0)

\* orders.drop_duplicates()
drop_duplicates(rows) == KeepFirst([i \in DOMAIN rows |-> Columns(rows[i])], rows, 1)

\* the de-duplication left out
dedup_people_mut(p) == p

\* lines 95-97: people.drop_duplicates(subset=['region']) when regions repeat
dedup_people(p) ==
    IF HasCol(p, "region") /\ \E i, j \in DOMAIN p.rows : i < j /\ p.rows[i].region = p.rows[j].region
    THEN [p EXCEPT !.rows = KeepFirst([i \in DOMAIN p.rows |-> p.rows[i].region], p.rows, 1)]
    ELSE p

\* lines 89-92
DropDuplicates ==
    /\ pc = "drop_duplicates"
    /\ LET kept == drop_duplicates(orders.rows)
       IN  /\ orders' = [orders EXCEPT !.rows = kept]
           /\ report' = [report EXCEPT !.dup_dropped = Len(orders.rows) - Len(kept)]
    /\ pc' = "people_duplicates"
    /\ UNCHANGED <<dbVars, wb, reads, returns, people, df, csv, parquet, exit>>

\* lines 95-97
DedupPeople ==
    /\ pc = "people_duplicates"
    /\ people' = dedup_people(people)
    /\ report' = [report EXCEPT !.people_dups = people' # people]
    /\ pc' = "quality_checks"
    /\ UNCHANGED <<dbVars, wb, reads, orders, returns, df, csv, parquet, exit>>

\* lines 100-103: warnings only
QualityChecks ==
    /\ pc = "quality_checks"
    /\ report' = [report EXCEPT
          !.neg_qty = HasCol(orders, "quantity")
                      /\ \E i \in DOMAIN orders.rows :
                            ~IsNull(orders.rows[i].quantity) /\ Val(orders.rows[i].quantity) < 0,
          !.invalid_discount = HasCol(orders, "discount")
                      /\ \E i \in DOMAIN orders.rows :
                            /\ ~IsNull(orders.rows[i].discount)
                            /\ (Val(orders.rows[i].discount) > 1000 \/ Val(orders.rows[i].discount) < 0)]
    /\ pc' = "missing_keys"
    /\ UNCHANGED <<dbVars, wb, reads, orders, returns, people, df, csv, parquet, exit>>

\* the drop left out
dropna_order_id_mut(rows) == rows

\* orders.dropna(subset=['order_id'])
dropna_order_id(rows) == SelectSeq(rows, LAMBDA r : ~IsNull(r.order_id))

\* lines 106-109
DropMissingKeys ==
    /\ pc = "missing_keys"
    /\ LET missing_orders ==
              IF HasCol(orders, "order_id")
              THEN Len(orders.rows) - Len(SelectSeq(orders.rows, LAMBDA r : ~IsNull(r.order_id)))
              ELSE 0
       IN  /\ report' = [report EXCEPT !.missing_orders = missing_orders]
           /\ orders' = IF missing_orders > 0
                        THEN [orders EXCEPT !.rows = dropna_order_id(orders.rows)]
                        ELSE orders
    /\ pc' = "merge_returns"
    /\ UNCHANGED <<dbVars, wb, reads, returns, people, df, csv, parquet, exit>>

(***************************************************************************)
(* Merging                                                                 *)
(***************************************************************************)
\* line 128-129 on one cell of 'returned'
norm_returned(x) ==
    LET s == Capitalize(Strip(AsStr(x)))
    IN  IF s \in {Yes, No} THEN Some(s) ELSE Some(No)

\* pd.merge(orders, returns[['order_id', 'returned']], on='order_id', how='left')
RECURSIVE merge_returns(_, _)
merge_returns(L, R) ==
    IF L = <<>> THEN <<>>
    ELSE LET l == Head(L)
             m == SelectSeq(R, LAMBDA r : r.order_id = l.order_id)
         IN  (IF m = <<>>
              THEN <<l @@ [returned |-> Null]>>
              ELSE [i \in DOMAIN m |-> l @@ [returned |-> m[i].returned]])
             \o merge_returns(Tail(L), R)

\* lines 117-119
ReturnsInvalid ==
    /\ pc = "merge_returns"
    /\ ~(HasCol(returns, "order_id") /\ HasCol(returns, "returned"))
    /\ Fail
    /\ UNCHANGED <<dbVars, wb, reads, orders, returns, people, df, report, csv, parquet>>

\* line 121-126 when the Orders sheet has no 'order_id' column: KeyError
MergeKeyError ==
    /\ pc = "merge_returns"
    /\ HasCol(returns, "order_id") /\ HasCol(returns, "returned")
    /\ ~HasCol(orders, "order_id")
    /\ Fail
    /\ UNCHANGED <<dbVars, wb, reads, orders, returns, people, df, report, csv, parquet>>

\* lines 121-130
MergeReturns ==
    /\ pc = "merge_returns"
    /\ HasCol(returns, "order_id") /\ HasCol(returns, "returned")
    /\ HasCol(orders, "order_id")
    /\ LET m == merge_returns(orders.rows, returns.rows)
       IN  df' = [cols |-> orders.cols @@ [returned |-> ColName.returned],
                  rows |-> [i \in DOMAIN m |-> [m[i] EXCEPT !.returned = norm_returned(m[i].returned)]]]
    /\ pc' = "region_split"
    /\ UNCHANGED <<dbVars, wb, reads, orders, returns, people, report, csv, parquet, exit>>

\* the split left out
region_split_mut(d) == d

\* a missing state left as it is instead of falling to "Western Canada"
region_split_nullstate(d) ==
    LET canada(i) == HasCol(d, "country") /\ d.rows[i].country = Some("Canada")
    IN  IF HasCol(d, "state")
        THEN [d EXCEPT !.rows = [i \in DOMAIN d.rows |->
                 IF canada(i) /\ ~IsNull(d.rows[i].state)
                 THEN [d.rows[i] EXCEPT !.region =
                          Some(IF Val(d.rows[i].state) \in eastern_states THEN EasternCanada ELSE WesternCanada)]
                 ELSE d.rows[i]]]
        ELSE d

\* lines 133-137
region_split(d) ==
    LET canada_mask == [i \in DOMAIN d.rows |->
                          IF HasCol(d, "country") THEN d.rows[i].country = Some("Canada") ELSE FALSE]
        isin(i) == ~IsNull(d.rows[i].state) /\ Val(d.rows[i].state) \in eastern_states
    IN  IF HasCol(d, "state")
        THEN [d EXCEPT !.rows = [i \in DOMAIN d.rows |->
                 IF canada_mask[i] /\ isin(i) THEN [d.rows[i] EXCEPT !.region = Some(EasternCanada)]
                 ELSE IF canada_mask[i] /\ ~isin(i) THEN [d.rows[i] EXCEPT !.region = Some(WesternCanada)]
                 ELSE d.rows[i]]]
        ELSE d

RegionSplit ==
    /\ pc = "region_split"
    /\ df' = region_split(df)
    /\ pc' = "merge_people"
    /\ UNCHANGED <<dbVars, wb, reads, orders, returns, people, report, csv, parquet, exit>>

\* pd.merge(df_merged, people[['region', 'person']], on='region', how='left')
RECURSIVE merge_people(_, _)
merge_people(L, R) ==
    IF L = <<>> THEN <<>>
    ELSE LET l == Head(L)
             m == SelectSeq(R, LAMBDA r : r.region = l.region)
         IN  (IF m = <<>>
              THEN <<l @@ [person |-> Null]>>
              ELSE [i \in DOMAIN m |-> l @@ [person |-> m[i].person]])
             \o merge_people(Tail(L), R)

\* df_merged['person'].fillna('Unknown')
fillna_unknown(rows) ==
    [i \in DOMAIN rows |-> IF IsNull(rows[i].person) THEN [rows[i] EXCEPT !.person = Some(Unknown)] ELSE rows[i]]

\* lines 140-146 when people has 'region' but no 'person' column: KeyError
PeopleKeyError ==
    /\ pc = "merge_people"
    /\ HasCol(df, "region") /\ HasCol(people, "region") /\ ~HasCol(people, "person")
    /\ Fail
    /\ UNCHANGED <<dbVars, wb, reads, orders, returns, people, df, report, csv, parquet>>

\* lines 140-159
MergePeople ==
    /\ pc = "merge_people"
    /\ ~(HasCol(df, "region") /\ HasCol(people, "region") /\ ~HasCol(people, "person"))
    /\ LET joined == IF HasCol(df, "region") /\ HasCol(people, "region")
                     THEN merge_people(df.rows, people.rows)
                     ELSE [i \in DOMAIN df.rows |-> df.rows[i] @@ [person |-> Some(Unknown)]]
           unmatched_count == Len(SelectSeq(joined, LAMBDA r : IsNull(r.person)))
       IN  /\ df' = [cols |-> df.cols @@ [person |-> ColName.person],
                     rows |-> IF unmatched_count > 0 THEN fillna_unknown(joined) ELSE joined]
           /\ report' = [report EXCEPT !.unmatched = unmatched_count]
    /\ pc' = "coerce_dates"
    /\ UNCHANGED <<dbVars, wb, reads, orders, returns, people, csv, parquet, exit>>

(***************************************************************************)
(* Type coercion                                                           *)
(***************************************************************************)
\* lines 184-192; the categorical casts of lines 195-198 change no value
CoerceDates ==
    /\ pc = "coerce_dates"
    /\ \E intsToNaT \in BOOLEAN :
          LET od == coerce_date_col([i \in DOMAIN df.rows |-> df.rows[i].order_date], intsToNaT)
              sd == coerce_date_col([i \in DOMAIN df.rows |-> df.rows[i].ship_date], intsToNaT)
          IN  df' = [df EXCEPT !.rows = [i \in DOMAIN df.rows |->
                        [df.rows[i] EXCEPT
                            !.order_date = IF HasCol(df, "order_date") THEN od[i] ELSE @,
                            !.ship_date = IF HasCol(df, "ship_date") THEN sd[i] ELSE @]]]
    /\ pc' = "clean_text"
    /\ UNCHANGED <<dbVars, wb, reads, orders, returns, people, report, csv, parquet, exit>>

(***************************************************************************)
(* Additional cleaning, rounding, derivation                               *)
(***************************************************************************)
\* Series.astype(str).str.replace('\xa0', ' ').str.strip() on one cell
clean_text(x) == Some(Strip(Replace(AsStr(x), "nbsp", " ")))

\* lines 210-214
CleanText ==
    /\ pc = "clean_text"
    /\ df' = [df EXCEPT !.rows = [i \in DOMAIN df.rows |->
                 [df.rows[i] EXCEPT
                     !.person = IF HasCol(df, "person") THEN clean_text(@) ELSE @,
                     !.region = IF HasCol(df, "region") THEN clean_text(@) ELSE @]]]
    /\ pc' = "round_floats"
    /\ UNCHANGED <<dbVars, wb, reads, orders, returns, people, report, csv, parquet, exit>>

\* lines 217-221
RoundFloats ==
    /\ pc = "round_floats"
    /\ df' = [df EXCEPT !.rows = [i \in DOMAIN df.rows |->
                 [df.rows[i] EXCEPT
                     !.sales = IF HasCol(df, "sales") THEN Round2(@) ELSE @,
                     !.discount = IF HasCol(df, "discount") THEN Round2(@) ELSE @,
                     !.profit = IF HasCol(df, "profit") THEN Round2(@) ELSE @]]]
    /\ pc' = "profit_margin"
    /\ UNCHANGED <<dbVars, wb, reads, orders, returns, people, report, csv, parquet, exit>>

\* np.where(sales.fillna(0) == 0, nan, (profit / sales).round(4)) on one row,
\* in ten-thousandths
profit_margin(profit, sales) ==
    IF IsNull(sales) \/ Val(sales) = 0 THEN Null
    ELSE IF IsNull(profit) THEN Null
    ELSE Some(RoundDiv(Val(profit) * 10000, Val(sales)))

\* lines 224-226
Margin ==
    /\ pc = "profit_margin"
    /\ df' = IF HasCol(df, "profit") /\ HasCol(df, "sales")
             THEN [cols |-> df.cols @@ [profit_margin |-> ColName.profit_margin],
                   rows |-> [i \in DOMAIN df.rows |->
                               df.rows[i] @@ [profit_margin |-> profit_margin(df.rows[i].profit, df.rows[i].sales)]]]
             ELSE df
    /\ pc' = "discount_range"
    /\ UNCHANGED <<dbVars, wb, reads, orders, returns, people, report, csv, parquet, exit>>

\* the lower limit forgotten
out_of_range_mut(x) == ~IsNull(x) /\ Val(x) > 1000

\* (discount < 0) | (discount > 1) on one cell
out_of_range(x) == ~IsNull(x) /\ (Val(x) < 0 \/ Val(x) > 1000)

\* lines 229-235
DiscountRange ==
    /\ pc = "discount_range"
    /\ IF HasCol(df, "discount")
       THEN LET n == Len(SelectSeq(df.rows, LAMBDA r : out_of_range(r.discount)))
            IN  /\ report' = [report EXCEPT !.out_of_range = n]
                /\ df' = IF n > 0
                         THEN [df EXCEPT !.rows = [i \in DOMAIN df.rows |->
                                  IF out_of_range(df.rows[i].discount)
                                  THEN [df.rows[i] EXCEPT !.discount = Null]
                                  ELSE df.rows[i]]]
                         ELSE df
       ELSE UNCHANGED <<report, df>>
    /\ pc' = "export_csv"
    /\ UNCHANGED <<dbVars, wb, reads, orders, returns, people, csv, parquet, exit>>

(***************************************************************************)
(* Export                                                                  *)
(***************************************************************************)
\* line 241: to_csv opens the target path itself for writing
CsvOpen ==
    /\ pc = "export_csv"
    /\ csv' = "partial"
    /\ pc' = "writing_csv"
    /\ UNCHANGED <<dbVars, wb, reads, orders, returns, people, df, report, parquet, exit>>

\* line 241: the path cannot be opened (OSError), nothing is written
CsvOpenFail ==
    /\ pc = "export_csv"
    /\ Fail
    /\ UNCHANGED <<dbVars, wb, reads, orders, returns, people, df, report, csv, parquet>>

CsvWritten ==
    /\ pc = "writing_csv"
    /\ csv' = "complete"
    /\ pc' = "export_parquet"
    /\ UNCHANGED <<dbVars, wb, reads, orders, returns, people, df, report, parquet, exit>>

\* line 241: a write fails part-way (OSError); the exception is not caught
CsvWriteFail ==
    /\ pc = "writing_csv"
    /\ Fail
    /\ UNCHANGED <<dbVars, wb, reads, orders, returns, people, df, report, csv, parquet>>

\* line 244
ParquetOpen ==
    /\ pc = "export_parquet"
    /\ parquet' = "partial"
    /\ pc' = "writing_parquet"
    /\ UNCHANGED <<dbVars, wb, reads, orders, returns, people, df, report, csv, exit>>

\* line 244: pyarrow missing, or the conversion or the open fails
ParquetOpenFail ==
    /\ pc = "export_parquet"
    /\ Fail
    /\ UNCHANGED <<dbVars, wb, reads, orders, returns, people, df, report, csv, parquet>>

ParquetWritten ==
    /\ pc = "writing_parquet"
    /\ parquet' = "complete"
    /\ pc' = "done"
    /\ exit' = 0
    /\ UNCHANGED <<dbVars, wb, reads, orders, returns, people, df, report, csv>>

ParquetWriteFail ==
    /\ pc = "writing_parquet"
    /\ Fail
    /\ UNCHANGED <<dbVars, wb, reads, orders, returns, people, df, report, csv, parquet>>

(***************************************************************************)
(* The workbooks the model runs the pipeline on                            *)
(***************************************************************************)
H_OrderID == <<"O", "r", "d", "e", "r", " ", "I", "D">>

H_OrderIDHyphen == <<" ", "o", "r", "d", "e", "r", "-", "i", "d">>

H_OrderIDJoined == <<"O", "r", "d", "e", "r", "I", "D">>

H_Region == <<"R", "e", "g", "i", "o", "n">>

H_Territory == <<"T", "e", "r", "r", "i", "t", "o", "r", "y">>

H_Returned == <<"R", "e", "t", "u", "r", "n", "e", "d">>

H_Person == <<"P", "e", "r", "s", "o", "n">>

OrdersCols == [
    order_id |-> H_OrderID,
    quantity |-> <<"Q", "u", "a", "n", "t", "i", "t", "y">>,
    discount |-> <<"D", "i", "s", "c", "o", "u", "n", "t">>,
    sales |-> <<"S", "a", "l", "e", "s">>,
    profit |-> <<"P", "r", "o", "f", "i", "t">>,
    country |-> <<"C", "o", "u", "n", "t", "r", "y">>,
    state |-> <<"S", "t", "a", "t", "e">>,
    region |-> H_Region,
    order_date |-> <<"O", "r", "d", "e", "r", " ", "D", "a", "t", "e">>,
    ship_date |-> <<"S", "h", "i", "p", " ", "D", "a", "t", "e">>]

ReturnsCols == [order_id |-> H_OrderID, returned |-> H_Returned]

PeopleCols == [region |-> H_Region, person |-> H_Person]

East == <<"E", "a", "s", "t">>

Al == <<"A", "l">>

BoPadded == <<" ", "B", "o", "nbsp">>

Cy == <<"C", "y">>

DefOrder == [
    order_id |-> Some("A"), quantity |-> Some(1), discount |-> Some(100),
    sales |-> Some(200000), profit |-> Some(50000),
    country |-> Some("USA"), state |-> Some("Texas"), region |-> Some(East),
    order_date |-> Some(Ts(42370, 0, 0)), ship_date |-> Some(Ts(42372, 0, 0))]

DefPeople == <<[region |-> Some(East), person |-> Some(Al)]>>

DefWb == [exists |-> TRUE, dtype_err |-> FALSE, parse_err |-> FALSE,
          orders |-> [cols |-> OrdersCols, rows |-> <<DefOrder>>],
          returns |-> [cols |-> ReturnsCols, rows |-> <<>>],
          people |-> [cols |-> PeopleCols, rows |-> DefPeople]]

\* keys and the returns join
KeyRows == {[DefOrder EXCEPT !.order_id = o] : o \in {Null, Some("A"), Some("B")}}

ReturnRows == {[order_id |-> Some("A"), returned |-> Some(Yes)],
               [order_id |-> Some("A"), returned |-> Some(<<" ", "y", "E", "S">>)],
               [order_id |-> Some("A"), returned |-> Some(<<"m", "a", "y", "b", "e">>)],
               [order_id |-> Some("B"), returned |-> Some(No)]}

KeyWbs ==
    \E ko \in 0..MaxOrders, kr \in 0..MaxReturns :
        \E o \in [1..ko -> KeyRows], r \in [1..kr -> ReturnRows] :
            wb = [DefWb EXCEPT !.orders.rows = o, !.returns.rows = r]

\* discounts, with duplicate rows, missing keys and fan-out
DiscountRows == {[DefOrder EXCEPT !.order_id = o, !.discount = d] :
                    o \in {Null, Some("A")},
                    d \in {Some(100), Some(1500), Some(1004), Some(-200)}}

FanOutReturns == <<[order_id |-> Some("A"), returned |-> Some(Yes)],
                   [order_id |-> Some("A"), returned |-> Some(No)]>>

DiscountWbs ==
    \E ko \in 0..MaxOrders :
        \E o \in [1..ko -> DiscountRows], r \in {<<>>, FanOutReturns} :
            wb = [DefWb EXCEPT !.orders.rows = o, !.returns.rows = r]

\* geography and the people join
GeoRows == {[DefOrder EXCEPT !.country = Some("Canada"), !.state = s] :
               s \in {Some("Ontario"), Some("British Columbia"), Null}}
           \cup {[DefOrder EXCEPT !.state = Some("Ontario")],
                 [DefOrder EXCEPT !.country = Null, !.region = Null]}

PeopleRows == {[region |-> Some(EasternCanada), person |-> Some(Al)],
               [region |-> Some(WesternCanada), person |-> Some(BoPadded)],
               [region |-> Some(East), person |-> Null],
               [region |-> Some(EasternCanada), person |-> Some(Cy)]}

GeoWbs ==
    \E ko \in 0..MaxOrders, kp \in 0..MaxPeople :
        \E o \in [1..ko -> GeoRows], p \in [1..kp -> PeopleRows] :
            wb = [DefWb EXCEPT !.orders.rows = o, !.people.rows = p]

\* headers and failures of the reads
GeoPair == <<[DefOrder EXCEPT !.country = Some("Canada"), !.state = Some("Ontario")],
             [DefOrder EXCEPT !.order_id = Some("B")]>>

HeaderWbs ==
    \E e \in BOOLEAN, de \in BOOLEAN, pe \in BOOLEAN,
       oid \in {H_OrderID, H_OrderIDJoined},
       oc \in {OrdersCols.country, <<>>}, os \in {OrdersCols.state, <<>>},
       rid \in {H_OrderID, H_OrderIDHyphen, H_OrderIDJoined},
       pr \in {H_Region, H_Territory}, pp \in {H_Person, <<>>} :
        wb = [DefWb EXCEPT
                 !.exists = e, !.dtype_err = de, !.parse_err = pe,
                 !.orders = [cols |-> [OrdersCols EXCEPT !.order_id = oid, !.country = oc, !.state = os],
                             rows |-> GeoPair],
                 !.returns.cols = [ReturnsCols EXCEPT !.order_id = rid],
                 !.people = [cols |-> [PeopleCols EXCEPT !.region = pr, !.person = pp],
                             rows |-> <<[region |-> Some(EasternCanada), person |-> Some(Al)]>>]]

\* dates
DateRows == {[DefOrder EXCEPT !.order_date = d, !.ship_date = s] :
                d \in {Null, Some(Ts(42370, 0, 0)), Some(Num(1)), Some(Num(42370)),
                       Some(Str("2016-01-05")), Some(Str("n/a"))},
                s \in {Some(Ts(42372, 0, 0)), Some(Num(2))}}

DateWbs ==
    \E pe \in BOOLEAN, ko \in 0..MaxOrders :
        \E o \in [1..ko -> DateRows] :
            wb = [DefWb EXCEPT !.parse_err = pe, !.orders.rows = o]

\* amounts
AmountRows == {[DefOrder EXCEPT !.sales = s, !.profit = p] :
                  s \in {Some(200000), Some(0), Some(14), Some(4), Null},
                  p \in {Some(50000), Some(10000), Some(6)}}

AmountWbs ==
    \E ko \in 0..MaxOrders :
        \E o \in [1..ko -> AmountRows] : wb = [DefWb EXCEPT !.orders.rows = o]

\* quantities (all within the int16 of the Quantity hint), with duplicate
\* rows, missing keys and fan-out
QuantityRows == {[DefOrder EXCEPT !.order_id = o, !.quantity = q] :
                    o \in {Null, Some("A")},
                    q \in {Some(5), Some(0), Some(-3)}}

QuantityWbs ==
    \E ko \in 0..MaxOrders :
        \E o \in [1..ko -> QuantityRows], r \in {<<>>, FanOutReturns} :
            wb = [DefWb EXCEPT !.orders.rows = o, !.returns.rows = r]

\* the workbooks the pipeline is run on
Workbooks ==
    KeyWbs \/ DiscountWbs \/ GeoWbs \/ HeaderWbs \/ DateWbs \/ AmountWbs \/ QuantityWbs

IdleDB ==
    /\ script = "none"
    /\ dpc = "idle"
    /\ env = <<>>
    /\ con = "none"
    /\ opens = 0
    /\ dexit = -1

Init ==
    /\ Workbooks
    /\ pc = "load"
    /\ reads = <<>>
    /\ orders = EmptyTable
    /\ returns = EmptyTable
    /\ people = EmptyTable
    /\ df = EmptyTable
    /\ report = NoReport
    /\ csv = "absent"
    /\ parquet = "absent"
    /\ exit = -1
    /\ IdleDB

Next ==
    \/ LoadOk
    \/ LoadFileNotFound
    \/ LoadValueError
    \/ FallbackOk
    \/ FallbackFail
    \/ Normalize
    \/ DropDuplicates
    \/ DedupPeople
    \/ QualityChecks
    \/ DropMissingKeys
    \/ ReturnsInvalid
    \/ MergeKeyError
    \/ MergeReturns
    \/ RegionSplit
    \/ PeopleKeyError
    \/ MergePeople
    \/ CoerceDates
    \/ CleanText
    \/ RoundFloats
    \/ Margin
    \/ DiscountRange
    \/ CsvOpen
    \/ CsvOpenFail
    \/ CsvWritten
    \/ CsvWriteFail
    \/ ParquetOpen
    \/ ParquetOpenFail
    \/ ParquetWritten
    \/ ParquetWriteFail

Spec == Init /\ [][Next]_vars

(***************************************************************************)
(* The downstream scripts and their DuckDB connection                      *)
(*                                                                         *)
(* con records what the script did with the connection: "open" after       *)
(* duckdb.connect returned, "closed" after con.close().  A call on the     *)
(* connection either returns or raises; an exception no handler catches    *)
(* ends the script with status 1 and con as it was.                        *)
(***************************************************************************)
Scripts == {"load_and_validate", "run_transformations", "export_for_powerbi"}

EnvFlags == {"parquet_exists", "schema_exists", "qc_exists", "has_returned",
             "has_people_cols", "sql_exists", "db_exists"}

\* the six export_query calls of export_for_powerbi.main, in order
ExportSteps == <<"kpi_overview", "monthly_sales_trends", "product_performance",
                 "customer_loyalty", "regional_performance", "discount_profitability">>

IdlePipeline ==
    /\ wb = DefWb
    /\ pc = "idle"
    /\ reads = <<>>
    /\ orders = EmptyTable
    /\ returns = EmptyTable
    /\ people = EmptyTable
    /\ df = EmptyTable
    /\ report = NoReport
    /\ csv = "complete"
    /\ parquet = "complete"
    /\ exit = 0

InitDB ==
    /\ IdlePipeline
    /\ script \in Scripts
    /\ env \in [EnvFlags -> BOOLEAN]
    /\ dpc = "start"
    /\ con = "none"
    /\ opens = 0
    /\ dexit = -1

\* control moves on, the connection is left as it is
Goto(from, to) ==
    /\ dpc = from
    /\ dpc' = to
    /\ UNCHANGED <<pipeVars, script, env, con, opens, dexit>>

\* con = duckdb.connect(...)
Connect(from, to) ==
    /\ dpc = from
    /\ con' = "open"
    /\ opens' = opens + 1
    /\ dpc' = to
    /\ UNCHANGED <<pipeVars, script, env, dexit>>

\* con.close() followed by sys.exit(code), or by the end of main (code 0)
CloseAndExit(from, code) ==
    /\ dpc = from
    /\ con' = "closed"
    /\ dexit' = code
    /\ dpc' = "exited"
    /\ UNCHANGED <<pipeVars, script, env, opens>>

\* sys.exit(code) with no con.close() on the way
ExitOnly(from, code) ==
    /\ dpc = from
    /\ dexit' = code
    /\ dpc' = "exited"
    /\ UNCHANGED <<pipeVars, script, env, con, opens>>

\* an exception that no handler of main catches: traceback, status 1
Uncaught(from) == ExitOnly(from, 1)

LV == "load_and_validate"

\* load_and_validate.py line 12
LV_Connect == script = LV /\ Connect("start", "check_parquet")

LV_ConnectFails == script = LV /\ Uncaught("start")

\* lines 16-20
LV_ParquetMissing == script = LV /\ ~env["parquet_exists"] /\ CloseAndExit("check_parquet", 1)

LV_ParquetFound == script = LV /\ env["parquet_exists"] /\ Goto("check_parquet", "count_parquet")

\* lines 22-27
LV_CountOk == script = LV /\ Goto("count_parquet", "schema")

LV_CountRaises == script = LV /\ CloseAndExit("count_parquet", 1)

\* lines 33-42: the DDL runs or fails with a warning, or there is no file
LV_Schema == script = LV /\ Goto("schema", "load_raw")

\* lines 45-52
LV_LoadRawOk == script = LV /\ Goto("load_raw", "inspect")

LV_LoadRawRaises == script = LV /\ CloseAndExit("load_raw", 1)

\* lines 55-62
LV_InspectOk == script = LV /\ Goto("inspect", "raw_returns")

LV_InspectRaises == script = LV /\ CloseAndExit("inspect", 1)

\* lines 65-72
LV_ReturnsOk == script = LV /\ env["has_returned"] /\ Goto("raw_returns", "raw_people")

\* lines 73-74: the CREATE raised, the handler runs
LV_ReturnsRaises == script = LV /\ env["has_returned"] /\ Goto("raw_returns", "raw_returns_fallback")

\* lines 75-76, inside the except block
LV_ReturnsFallbackOk == script = LV /\ Goto("raw_returns_fallback", "raw_people")

LV_ReturnsFallbackRaises == script = LV /\ Uncaught("raw_returns_fallback")

\* lines 77-80
LV_ReturnsEmptyOk == script = LV /\ ~env["has_returned"] /\ Goto("raw_returns", "raw_people")

LV_ReturnsEmptyRaises == script = LV /\ ~env["has_returned"] /\ Uncaught("raw_returns")

\* lines 83-90
LV_PeopleOk == script = LV /\ env["has_people_cols"] /\ Goto("raw_people", "quality")

\* lines 91-92
LV_PeopleRaises == script = LV /\ env["has_people_cols"] /\ Goto("raw_people", "raw_people_fallback")

\* lines 93-94
LV_PeopleFallbackOk == script = LV /\ Goto("raw_people_fallback", "quality")

LV_PeopleFallbackRaises == script = LV /\ Uncaught("raw_people_fallback")

\* lines 95-98
LV_PeopleEmptyOk == script = LV /\ ~env["has_people_cols"] /\ Goto("raw_people", "quality")

LV_PeopleEmptyRaises == script = LV /\ ~env["has_people_cols"] /\ Uncaught("raw_people")

\* lines 101-112: every exception is caught and reported as a warning
LV_Quality == script = LV /\ Goto("quality", "quality_file")

\* lines 115-125
LV_QualityFile == script = LV /\ Goto("quality_file", "close")

\* lines 127-128
LV_Close == script = LV /\ CloseAndExit("close", 0)

RT == "run_transformations"

\* run_transformations.py lines 14-16
RT_SqlMissing == script = RT /\ ~env["sql_exists"] /\ ExitOnly("start", 1)

\* line 19
RT_Connect == script = RT /\ env["sql_exists"] /\ Connect("start", "transform")

RT_ConnectFails == script = RT /\ env["sql_exists"] /\ Uncaught("start")

\* lines 21-25
RT_TransformOk == script = RT /\ Goto("transform", "counts")

\* lines 26-29
RT_TransformRaises == script = RT /\ CloseAndExit("transform", 2)

\* lines 32-51: safe_count swallows every exception of the queries
RT_Counts == script = RT /\ Goto("counts", "close")

\* lines 53-54
RT_Close == script = RT /\ CloseAndExit("close", 0)

EX == "export_for_powerbi"

\* export_for_powerbi.py lines 114-116
EX_DbMissing == script = EX /\ ~env["db_exists"] /\ ExitOnly("start", 1)

\* lines 118-119
EX_Connect == script = EX /\ env["db_exists"] /\ Connect("start", ExportSteps[1])

EX_ConnectFails == script = EX /\ env["db_exists"] /\ Uncaught("start")

\* lines 124-129: one export_query call returns
EX_ExportOk ==
    /\ script = EX
    /\ \E k \in DOMAIN ExportSteps :
          Goto(ExportSteps[k], IF k < Len(ExportSteps) THEN ExportSteps[k + 1] ELSE "finally")

\* lines 131-135: one export_query call raises; sys.exit(2) runs the finally block
EX_ExportRaises ==
    /\ script = EX
    /\ \E k \in DOMAIN ExportSteps : CloseAndExit(ExportSteps[k], 2)

\* lines 134-137
EX_Finally == script = EX /\ CloseAndExit("finally", 0)

NextDB ==
    \/ LV_Connect
    \/ LV_ConnectFails
    \/ LV_ParquetMissing
    \/ LV_ParquetFound
    \/ LV_CountOk
    \/ LV_CountRaises
    \/ LV_Schema
    \/ LV_LoadRawOk
    \/ LV_LoadRawRaises
    \/ LV_InspectOk
    \/ LV_InspectRaises
    \/ LV_ReturnsOk
    \/ LV_ReturnsRaises
    \/ LV_ReturnsFallbackOk
    \/ LV_ReturnsFallbackRaises
    \/ LV_ReturnsEmptyOk
    \/ LV_ReturnsEmptyRaises
    \/ LV_PeopleOk
    \/ LV_PeopleRaises
    \/ LV_PeopleFallbackOk
    \/ LV_PeopleFallbackRaises
    \/ LV_PeopleEmptyOk
    \/ LV_PeopleEmptyRaises
    \/ LV_Quality
    \/ LV_QualityFile
    \/ LV_Close
    \/ RT_SqlMissing
    \/ RT_Connect
    \/ RT_ConnectFails
    \/ RT_TransformOk
    \/ RT_TransformRaises
    \/ RT_Counts
    \/ RT_Close
    \/ EX_DbMissing
    \/ EX_Connect
    \/ EX_ConnectFails
    \/ EX_ExportOk
    \/ EX_ExportRaises
    \/ EX_Finally

SpecDB == InitDB /\ [][NextDB]_vars

(***************************************************************************)
(* clean_cols on its own: every list of column identifiers within the      *)
(* bounds is put through the function, and the result is put through again *)
(***************************************************************************)
HeaderChars == {" ", "nbsp", "-", "A"}

Headers == UNION {[1..k -> HeaderChars] : k \in 0..MaxHeaderLen}

HeaderLists == UNION {[1..k -> Headers] : k \in 0..MaxCols}

InitCols ==
    /\ \E l \in HeaderLists : wb = [DefWb EXCEPT !.orders = [cols |-> l, rows |-> <<>>]]
    /\ orders = wb.orders
    /\ pc = "cols_read"
    /\ reads = <<>>
    /\ returns = EmptyTable
    /\ people = EmptyTable
    /\ df = EmptyTable
    /\ report = NoReport
    /\ csv = "absent"
    /\ parquet = "absent"
    /\ exit = -1
    /\ IdleDB

\* line 79: orders = clean_cols(orders)
CleanColsOnce ==
    /\ pc = "cols_read"
    /\ orders' = clean_cols(orders)
    /\ pc' = "cols_cleaned"
    /\ UNCHANGED <<dbVars, wb, reads, returns, people, df, report, csv, parquet, exit>>

\* the same call on its own result
CleanColsAgain ==
    /\ pc = "cols_cleaned"
    /\ orders' = clean_cols(orders)
    /\ pc' = "cols_cleaned_again"
    /\ UNCHANGED <<dbVars, wb, reads, returns, people, df, report, csv, parquet, exit>>

NextCols ==
    \/ CleanColsOnce
    \/ CleanColsAgain

SpecCols == InitCols /\ [][NextCols]_vars

(***************************************************************************)
(* Properties                                                              *)
(***************************************************************************)
\* the run has reached the export step: df is the dataset that is exported
Exported == pc \in {"export_csv", "writing_csv", "export_parquet", "writing_parquet", "done"}

\* the row of the Orders sheet a record of df_merged comes from
Src(r) == wb.orders.rows[r.idx + 1]

\* C1: every record of the exported dataset has a non-null order_id, returned
\* equal to "Yes" or "No", a non-null person, and a discount that is null or
\* lies in [0,1].
C1_KeyInvariant ==
    Exported =>
        \A i \in DOMAIN df.rows :
            LET r == df.rows[i]
            IN  /\ r.order_id # Null
                /\ r.returned \in {Some(Yes), Some(No)}
                /\ r.person # Null
                /\ (r.discount = Null \/ (Val(r.discount) >= 0 /\ Val(r.discount) <= 1000))

\* a finished run that dropped rows without order_id and nulled discounts
C1_Witness ==
    /\ pc = "done"
    /\ report.missing_orders > 0
    /\ report.out_of_range > 0
    /\ Len(df.rows) > 0

MatchCount(o) == Cardinality({j \in DOMAIN returns.rows : returns.rows[j].order_id = o.order_id})

Appearances(o) == Cardinality({i \in DOMAIN df.rows : df.rows[i].idx = o.idx})

\* C2: an orders row that survived validation and matches k >= 1 rows of the
\* returns table appears exactly k times in the final dataset, a row without a
\* match appears exactly once, and the dataset holds no other record (so the
\* people join neither adds nor removes rows).
C2_JoinCardinality ==
    Exported =>
        /\ \A i \in DOMAIN orders.rows :
              Appearances(orders.rows[i]) =
                 (IF MatchCount(orders.rows[i]) >= 1 THEN MatchCount(orders.rows[i]) ELSE 1)
        /\ \A i \in DOMAIN df.rows : \E j \in DOMAIN orders.rows : orders.rows[j].idx = df.rows[i].idx

\* a finished run with an order returned twice next to an order never returned
C2_Witness ==
    /\ pc = "done"
    /\ \E i, j \in DOMAIN orders.rows :
          /\ MatchCount(orders.rows[i]) = 2 /\ Appearances(orders.rows[i]) = 2
          /\ MatchCount(orders.rows[j]) = 0 /\ Appearances(orders.rows[j]) = 1

\* C3: a numeric day-offset n in order_date or ship_date is exported as the
\* date 1899-12-30 plus n days.
C3_SerialDates ==
    Exported =>
        \A i \in DOMAIN df.rows :
            LET r == df.rows[i]
            IN  /\ IsNum(Src(r).order_date) => r.order_date = Some(Ts(Val(Src(r).order_date).n, 0, 0))
                /\ IsNum(Src(r).ship_date) => r.ship_date = Some(Ts(Val(Src(r).ship_date).n, 0, 0))

\* C4: profit_margin is profit / sales of the values as read (before they are
\* rounded to 2 decimals), rounded to 4 decimals, when sales is neither null
\* nor zero, and null otherwise.
C4_MarginFromOriginal ==
    Exported =>
        \A i \in DOMAIN df.rows :
            LET r == df.rows[i]
                sales == Src(r).sales
                profit == Src(r).profit
            IN  r.profit_margin =
                   (IF IsNull(sales) \/ Val(sales) = 0 \/ IsNull(profit) THEN Null
                    ELSE Some(RoundDiv(Val(profit) * 10000, Val(sales))))

Outside01(x) == ~IsNull(x) /\ (Val(x) < 0 \/ Val(x) > 1000)

\* C5 as stated: the run reports as many out-of-range discounts as the orders
\* input has records with discount outside [0,1], and every such record is
\* exported with a null discount.
C5_CountsInputRecords ==
    Exported =>
        /\ report.out_of_range =
              Cardinality({i \in DOMAIN wb.orders.rows : Outside01(wb.orders.rows[i].discount)})
        /\ \A i \in DOMAIN df.rows : Outside01(Src(df.rows[i]).discount) => df.rows[i].discount = Null

\* C5 as amended: the run reports as many out-of-range discounts as the merged
\* dataset has records whose discount, rounded to 2 decimals, lies outside
\* [0,1]; each of these is exported with a null discount and every other
\* record with its rounded discount.
C5_CountsMergedRecords ==
    Exported =>
        LET hit(r) == Outside01(Round2(Src(r).discount))
        IN  /\ report.out_of_range = Cardinality({i \in DOMAIN df.rows : hit(df.rows[i])})
            /\ \A i \in DOMAIN df.rows :
                  df.rows[i].discount = (IF hit(df.rows[i]) THEN Null ELSE Round2(Src(df.rows[i]).discount))

\* one input record with an out-of-range discount, returned twice, reported as two
C5_Witness ==
    /\ pc = "done"
    /\ Len(wb.orders.rows) = 1
    /\ Outside01(wb.orders.rows[1].discount)
    /\ report.out_of_range = 2
    /\ \A i \in DOMAIN df.rows : df.rows[i].discount = Null

\* the region the split rule gives a record whose region was 'before'
SplitRegion(r, before) ==
    IF HasCol(df, "state") /\ HasCol(df, "country") /\ r.country = Some("Canada")
    THEN Some(IF ~IsNull(r.state) /\ Val(r.state) \in eastern_states THEN EasternCanada ELSE WesternCanada)
    ELSE before

\* C6: right after the region-split step a record of Canada has region
\* "Eastern Canada" when its state is one of the six eastern states and
\* "Western Canada" otherwise (a missing state included), any other record has
\* the region it had before, and without a state or country column no region
\* is changed.
C6_RegionRewrite ==
    pc = "merge_people" =>
        \A i \in DOMAIN df.rows : df.rows[i].region = SplitRegion(df.rows[i], Src(df.rows[i]).region)

\* the step has run on a Canadian record without state and on a foreign record
C6_Witness ==
    /\ pc = "merge_people"
    /\ \E i, j \in DOMAIN df.rows :
          /\ df.rows[i].country = Some("Canada") /\ IsNull(df.rows[i].state)
          /\ df.rows[i].region = Some(WesternCanada)
          /\ df.rows[j].country # Some("Canada") /\ df.rows[j].region = Src(df.rows[j]).region

\* rows of the People sheet, in input order, whose region is reg
PeopleMatches(reg) == {j \in DOMAIN wb.people.rows : wb.people.rows[j].region = reg}

FirstMatch(reg) == wb.people.rows[CHOOSE j \in PeopleMatches(reg) : \A k \in PeopleMatches(reg) : j <= k]

NoLookup(r) == ~HasCol(people, "region") \/ PeopleMatches(SplitRegion(r, Src(r).region)) = {}

\* C7 as stated: person is the person of the first People row whose region is
\* the record's region after the split, and "Unknown" when there is no such
\* row or People has no region column.
C7_PersonOfFirstMatch ==
    Exported =>
        \A i \in DOMAIN df.rows :
            LET r == df.rows[i]
            IN  r.person = (IF NoLookup(r) THEN Some(Unknown)
                            ELSE FirstMatch(SplitRegion(r, Src(r).region)).person)

\* C7 as amended: person is that person with non-breaking spaces replaced by
\* spaces and surrounding whitespace stripped; it is "Unknown" when there is
\* no such row, when that row's person is null, or when People has no region
\* column.
C7_PersonNormalised ==
    Exported =>
        \A i \in DOMAIN df.rows :
            LET r == df.rows[i]
                p == FirstMatch(SplitRegion(r, Src(r).region)).person
            IN  r.person = (IF NoLookup(r) THEN Some(Unknown)
                            ELSE IF IsNull(p) THEN Some(Unknown)
                            ELSE Some(Strip(Replace(Val(p), "nbsp", " "))))

\* a Canadian record whose person was found under its rewritten region
C7_Witness ==
    /\ pc = "done"
    /\ \E i \in DOMAIN df.rows :
          /\ df.rows[i].country = Some("Canada")
          /\ Src(df.rows[i]).region = Some(East)
          /\ ~NoLookup(df.rows[i])
          /\ df.rows[i].person = Some(<<"B", "o">>)

\* C8: a run that ends with a fatal condition leaves no partially written
\* file at the CSV or the Parquet path and ends with a nonzero exit status.
C8_NoPartialOutput ==
    pc = "failed" => (csv # "partial" /\ parquet # "partial" /\ exit # 0)

\* C9: a downstream script opens the connection at most once, and once it has
\* exited every connection it opened has been closed.
C9_ConnectionClosed ==
    /\ opens <= 1
    /\ (dpc = "exited" /\ opens >= 1) => con = "closed"

\* the load stage has failed: no read ever returned the sheets
LoadFailed == pc = "failed" /\ orders = EmptyTable

RetryRules(retry_args) ==
    /\ Len(reads) <= 2
    /\ Len(reads) = 2 => /\ read_outcome(wb, reads[1]) = "ValueError"
                         /\ reads[2] = retry_args
    /\ (read_outcome(wb, [dtype |-> TRUE, parse_dates |-> TRUE]) = "ValueError" /\ pc \notin {"load", "fallback"})
          => Len(reads) = 2
    /\ LoadFailed => \/ Len(reads) = 1 /\ ~wb.exists
                     \/ Len(reads) = 2 /\ read_outcome(wb, reads[2]) # "ok"
    /\ ~wb.exists => Len(reads) <= 1

\* C10 as stated: after a ValueError of the first read the loader retries
\* exactly once, without the column type hints; the load fails only if the
\* retry fails too, and a missing file is never retried.
C10_RetryWithoutHints ==
    /\ Len(reads) >= 1 => reads[1].dtype
    /\ Len(reads) = 2 => ~reads[2].dtype
    /\ RetryRules(IF Len(reads) = 2 THEN reads[2] ELSE <<>>)

\* C10 as amended: the retry keeps the column type hints and drops only the
\* date parsing.
C10_RetryWithoutDateParsing ==
    /\ Len(reads) >= 1 => reads[1] = [dtype |-> TRUE, parse_dates |-> TRUE]
    /\ RetryRules([dtype |-> TRUE, parse_dates |-> FALSE])

\* the retry was made and returned the sheets
C10_Witness ==
    /\ pc = "clean_cols"
    /\ Len(reads) = 2
    /\ wb.parse_err

\* a string the date parser does not recognise
Unparseable(x) == IsStr(x) /\ ParseDateString(Val(x).s) = Null

\* what the coercion of one date cell from x to y has to respect
DateKept(x, y) ==
    /\ IsTs(x) => y = x
    /\ Unparseable(x) => y = Null

\* C11: the coercion of order_date and ship_date always completes (it is
\* never stuck and never ends the run), it leaves every cell that already is
\* a calendar date unchanged and turns every unparseable string into a null
\* date; the exported record shows the same for the cell of the Orders sheet
\* it comes from.
C11_DateCoercionTotal ==
    /\ [](pc = "coerce_dates" => ENABLED CoerceDates)
    /\ [][pc = "coerce_dates" =>
            /\ pc' = "clean_text"
            /\ Len(df'.rows) = Len(df.rows)
            /\ \A i \in DOMAIN df.rows :
                  /\ DateKept(df.rows[i].order_date, df'.rows[i].order_date)
                  /\ DateKept(df.rows[i].ship_date, df'.rows[i].ship_date)]_vars
    /\ [](Exported =>
            \A i \in DOMAIN df.rows :
                /\ DateKept(Src(df.rows[i]).order_date, df.rows[i].order_date)
                /\ DateKept(Src(df.rows[i]).ship_date, df.rows[i].ship_date))

\* a finished run whose order_date column mixed a calendar date with an
\* unparseable string
C11_Witness ==
    /\ pc = "done"
    /\ \E i, j \in DOMAIN df.rows :
          /\ Unparseable(Src(df.rows[i]).order_date)
          /\ df.rows[i].order_date = Null
          /\ IsTs(Src(df.rows[j]).order_date)
          /\ df.rows[j].order_date = Src(df.rows[j]).order_date

\* C12: applying clean_cols to a list of column identifiers it has already
\* been applied to changes nothing: the second application returns the list
\* the first one returned.
C12_CleanColsIdempotent ==
    [][pc = "cols_cleaned" => orders'.cols = orders.cols]_vars

\* a list with an identifier that the first application changed in every
\* way the function can (outer whitespace, case, inner space, hyphen), put
\* through the function twice
C12_Witness ==
    /\ pc = "cols_cleaned_again"
    /\ \E i \in DOMAIN orders.cols :
          /\ wb.orders.cols[i] \in {<<" ", "A", "-">>, <<"A", " ", "A">>, <<"nbsp", "-", "A">>}
          /\ orders.cols[i] # wb.orders.cols[i]

\* the row at position k of the Orders sheet is neither an exact duplicate of
\* an earlier row nor without order_id
Survives(k) ==
    /\ ~IsNull(wb.orders.rows[k].order_id)
    /\ \A j \in 1..(k - 1) : wb.orders.rows[j] # wb.orders.rows[k]

====
